---- MODULE Spec2Model ----
(***************************************************************************)
(* Client-side persistence and session synchronisation of the storefront   *)
(* (App component of src/types.ts): three localStorage keys (SESSION,      *)
(* USERS_DB, GUEST_CART), the in-memory React state (user, cartItems) of   *)
(* each running instance (browser tab), and the handlers that move data    *)
(* between them.                                                           *)
(***************************************************************************)
EXTENDS Integers, Sequences, FiniteSets, TLC

----------------------------------------------------------------------------
(* Bounds of the exploration *)

\* most product entries the live guest cart, the carts of the Directory and the
\* orders of this run hold together: addToCart and handleLogin are not explored
\* beyond it
MaxCart == 3

\* most orders the signed-in checkouts of one run add to the Directory
MaxOrders == 2

----------------------------------------------------------------------------
(* Domain values *)

\* the browser tabs that can run the application on the same localStorage
Tabs == {1, 2}

\* e-mail addresses, as sequences of characters
Emails == { <<"A", "@", "X">>, <<"a", "@", "x">>, <<"b", "@", "x">> }

\* String.prototype.toLowerCase on one character
LowerChar(c) == CASE c = "A" -> "a" [] c = "X" -> "x" [] OTHER -> c

\* String.prototype.toLowerCase
toLowerCase(s) == [k \in DOMAIN s |-> LowerChar(s[k])]

\* display name attached to an account
NameOf(email) == toLowerCase(<<email[1]>>)

\* catalogue entries (id, price)
Products == { [id |-> "p1", price |-> 10], [id |-> "p2", price |-> 25] }

ProductIds == { p.id : p \in Products }

\* delivery forms a shopper can submit
Deliveries == { "home" }

\* identifiers Math.random can produce and timestamps the clock can give
OrderIds == { "O1" }

Dates == { "t1" }

----------------------------------------------------------------------------
(* localStorage items and JSON *)

\* getItem result for a key that was never set or was removed (null)
NullItem == [corrupt |-> FALSE, val |-> <<>>]

\* a stored text JSON.parse throws on
CorruptText == [corrupt |-> TRUE, val |-> <<>>]

\* JSON.stringify: the stored text of a value
JSONstringify(v) == [corrupt |-> FALSE, val |-> <<v>>]

\* truthiness of a getItem result: null is falsy, any stored text is truthy
IsPresent(item) == item.corrupt \/ item.val # <<>>

\* JSON.parse throws a SyntaxError on this text
ParseThrows(item) == item.corrupt

\* JSON.parse of a well-formed text
JSONparse(item) == item.val[1]

\* an object without properties, {}
EmptyDb == [k \in {} |-> k]

\* dbStr ? JSON.parse(dbStr) : {}
LoadDb(dbStr) == IF IsPresent(dbStr) THEN JSONparse(dbStr) ELSE EmptyDb

\* db[key], with undefined as the empty sequence and an object as <<object>>
DbGet(db, key) == IF key \in DOMAIN db THEN <<db[key]>> ELSE <<>>

\* faulty variant: an assignment that keeps only the written key
DbSetOnly(db, key, value) == [k \in {key} |-> value]

\* db[key] = value
DbSet(db, key, value) ==
  [k \in DOMAIN db \cup {key} |-> IF k = key THEN value ELSE db[k]]

\* a || b on optional objects
OrElse(a, b) == IF a # <<>> THEN a ELSE b

\* db[email] || db[email.toLowerCase()]
lookup(db, email) == OrElse(DbGet(db, email), DbGet(db, toLowerCase(email)))

----------------------------------------------------------------------------
(* Pure parts of the handlers *)

\* faulty variant: a product already in the cart is not added again
AddedCartOnce(cart, product) ==
  IF \E k \in DOMAIN cart : cart[k].id = product.id THEN cart ELSE Append(cart, product)

\* [...cartItems, product]
AddedCart(cart, product) == Append(cart, product)

\* faulty variant: only the first entry with the identifier is removed
RECURSIVE FilteredCartFirst(_, _)
FilteredCartFirst(cart, id) ==
  IF cart = <<>> THEN <<>>
  ELSE IF Head(cart).id = id THEN Tail(cart)
  ELSE <<Head(cart)>> \o FilteredCartFirst(Tail(cart), id)

\* cartItems.filter(item => item.id !== id)
FilteredCart(cart, id) == SelectSeq(cart, LAMBDA item : item.id # id)

\* faulty variant: the guest cart first
mergedCartGuestFirst(userCart, guestCart) == guestCart \o userCart

\* [...userCart, ...guestCart]
mergedCart(userCart, guestCart) == userCart \o guestCart

\* faulty variant: the entries are counted instead of their prices added
totalOfCount(cart) == Len(cart)

\* cartItems.reduce((acc, item) => acc + item.price, 0)
RECURSIVE total(_)
total(cart) == IF cart = <<>> THEN 0 ELSE total(SubSeq(cart, 1, Len(cart) - 1)) + cart[Len(cart)].price

\* the Order object literal of processOrder
newOrder(cart, id, date, deliveryDetails) ==
  [id |-> id, date |-> date, items |-> cart, total |-> total(cart),
   status |-> "processing", delivery |-> deliveryDetails]

\* { ...user, cart: newCart }
WithCart(u, cart) == [u EXCEPT !.cart = cart]

\* faulty variant: the new order put in front of the history
WithOrderInFront(u, order) == [u EXCEPT !.orders = <<order>> \o u.orders, !.cart = <<>>]

\* faulty variant: the new order replaces the history
WithOrderOnly(u, order) == [u EXCEPT !.orders = <<order>>, !.cart = <<>>]

\* { ...user, orders: [...user.orders, newOrder], cart: [] }
WithOrder(u, order) == [u EXCEPT !.orders = Append(u.orders, order), !.cart = <<>>]

\* number of orders of this run (identifiers of OrderIds) held by a Directory
RECURSIVE OrdersIn(_)
OrdersIn(db) ==
  IF DOMAIN db = {} THEN 0
  ELSE LET k == CHOOSE x \in DOMAIN db : TRUE
       IN  Len(SelectSeq(db[k].orders, LAMBDA o : o.id \in OrderIds))
             + OrdersIn([x \in DOMAIN db \ {k} |-> db[x]])

\* number of product entries in the orders of this run of one history
RECURSIVE ItemsIn(_)
ItemsIn(orders) ==
  IF orders = <<>> THEN 0
  ELSE (IF Head(orders).id \in OrderIds THEN Len(Head(orders).items) ELSE 0)
         + ItemsIn(Tail(orders))

\* number of product entries held by a Directory, in carts and orders of this run
RECURSIVE CartEntriesIn(_)
CartEntriesIn(db) ==
  IF DOMAIN db = {} THEN 0
  ELSE LET k == CHOOSE x \in DOMAIN db : TRUE
       IN  Len(db[k].cart) + ItemsIn(db[k].orders)
             + CartEntriesIn([x \in DOMAIN db \ {k} |-> db[x]])

\* the Directory a stored text holds, for the bounds only (nothing if unreadable)
Held(dbStr) == IF ParseThrows(dbStr) THEN EmptyDb ELSE LoadDb(dbStr)

----------------------------------------------------------------------------
(* State *)

VARIABLES
  session,     \* localStorage item SESSION
  usersDb,     \* localStorage item USERS_DB
  guestCart,   \* localStorage item GUEST_CART
  user,        \* per tab: React state user (<<>> is null)
  cartItems,   \* per tab: React state cartItems
  mounted,     \* per tab: the App component has been mounted
  lastOp       \* the handler that ran last, its input and the state it started from

vars == <<session, usersDb, guestCart, user, cartItems, mounted, lastOp>>

\* the state a handler of tab i starts from
Snapshot(i) ==
  [session |-> session, usersDb |-> usersDb, guestCart |-> guestCart,
   user |-> user[i], cartItems |-> cartItems[i], mounted |-> mounted[i]]

Record(op, i, arg) ==
  lastOp' = [op |-> op, tab |-> i, arg |-> arg, pre |-> Snapshot(i)]

----------------------------------------------------------------------------
(* Storage the application can find when a tab is opened *)

\* carts found in storage left by earlier runs
StartupCarts == { <<>>, <<[id |-> "p2", price |-> 25]>> }

\* an order placed in an earlier run
StartupOrder ==
  [id |-> "O0", date |-> "t0", items |-> <<[id |-> "p1", price |-> 10]>>,
   total |-> 10, status |-> "processing", delivery |-> "home"]

\* an account as earlier runs can have left it: never used, or with a cart
\* and a purchase
StartupUsers(email) ==
  { [name |-> NameOf(email), email |-> email, cart |-> <<>>, orders |-> <<>>],
    [name |-> NameOf(email), email |-> email,
     cart |-> <<[id |-> "p2", price |-> 25]>>, orders |-> <<StartupOrder>>] }

\* addresses a shopper signs in with; the third address only owns a stored account
AuthEmails == { <<"A", "@", "X">>, <<"a", "@", "x">> }

\* the account of the shopper who never signs in on this device
OtherUser ==
  [name |-> <<"b">>, email |-> <<"b", "@", "x">>,
   cart |-> <<[id |-> "p1", price |-> 10]>>, orders |-> <<>>]

StoredUsers == UNION { StartupUsers(e) : e \in AuthEmails } \cup { OtherUser }

\* Directories whose every entry is stored under its own email (persistUser and
\* the repair write db[u.email] = u and nothing else)
StartupDbs ==
  { db \in UNION { [K -> StoredUsers] : K \in SUBSET Emails } :
      /\ \A k \in DOMAIN db : db[k].email = k
      /\ CartEntriesIn(db) <= MaxCart }

StartupSessions ==
  { NullItem, CorruptText } \cup
  { JSONstringify(u) : u \in UNION { StartupUsers(e) : e \in AuthEmails } }

StartupUsersDbs == { NullItem, CorruptText } \cup { JSONstringify(db) : db \in StartupDbs }

StartupGuestCarts ==
  { NullItem, CorruptText, JSONstringify(<<[id |-> "p1", price |-> 10]>>) }

NoOp == [op |-> "none", tab |-> 0, arg |-> <<>>,
         pre |-> [session |-> NullItem, usersDb |-> NullItem, guestCart |-> NullItem,
                  user |-> <<>>, cartItems |-> <<>>, mounted |-> FALSE]]

\* no tab is open yet; storage is whatever earlier runs, other tabs or a partial
\* clearing of the site data left behind
Init ==
  /\ session \in StartupSessions
  /\ usersDb \in StartupUsersDbs
  /\ guestCart \in StartupGuestCarts
  /\ user = [i \in Tabs |-> <<>>]
  /\ cartItems = [i \in Tabs |-> <<>>]
  /\ mounted = [i \in Tabs |-> FALSE]
  /\ lastOp = NoOp

\* first visit: nothing is stored
InitEmpty ==
  /\ session = NullItem
  /\ usersDb = NullItem
  /\ guestCart = NullItem
  /\ user = [i \in Tabs |-> <<>>]
  /\ cartItems = [i \in Tabs |-> <<>>]
  /\ mounted = [i \in Tabs |-> FALSE]
  /\ lastOp = NoOp

----------------------------------------------------------------------------
(* Initialization effect (the self-healing resolver) *)

\* the try block of the effect throws: the session text or the directory text
\* does not parse
ResolveThrows(sessionStr, dbStr) ==
  ParseThrows(sessionStr) \/ (IsPresent(dbStr) /\ ParseThrows(dbStr))

\* faulty variant: the repair stores the account under the lowercased email
RepairedDbLowerKey(db, sessionUser) == DbSet(db, toLowerCase(sessionUser.email), sessionUser)

\* the Directory after the repair: db[freshUser.email] = freshUser
RepairedDb(db, sessionUser) == DbSet(db, sessionUser.email, sessionUser)

\* faulty variant: the session snapshot is trusted even when the Directory has the account
freshUserTrustSession(db, sessionUser) == sessionUser

\* the account the effect activates: the Directory entry if found, or the session
freshUserOf(db, sessionUser) ==
  LET found == lookup(db, sessionUser.email)
  IN  IF found = <<>> THEN sessionUser ELSE found[1]

\* the whole effect, from a freshly mounted component (user null, cart empty):
\* storage and React state it leaves
Resolve(sessionStr, dbStr, guestCartStr) ==
  IF IsPresent(sessionStr)
  THEN IF ResolveThrows(sessionStr, dbStr)
       THEN [session |-> NullItem, usersDb |-> dbStr, user |-> <<>>, cartItems |-> <<>>]
       ELSE LET sessionUser == JSONparse(sessionStr)
                db == LoadDb(dbStr)
                freshUser == freshUserOf(db, sessionUser)
            IN  [session |-> sessionStr,
                 usersDb |-> IF lookup(db, sessionUser.email) = <<>>
                             THEN JSONstringify(RepairedDb(db, sessionUser))
                             ELSE dbStr,
                 user |-> <<freshUser>>,
                 cartItems |-> freshUser.cart]
  ELSE [session |-> sessionStr, usersDb |-> dbStr, user |-> <<>>,
        cartItems |-> IF IsPresent(guestCartStr) /\ ~ParseThrows(guestCartStr)
                      THEN JSONparse(guestCartStr) ELSE <<>>]

\* a tab is opened or reloaded: the component mounts and the effect runs
Initialization(i) ==
  LET r == Resolve(session, usersDb, guestCart)
  IN  /\ session' = r.session
      /\ usersDb' = r.usersDb
      /\ user' = [user EXCEPT ![i] = r.user]
      /\ cartItems' = [cartItems EXCEPT ![i] = r.cartItems]
      /\ mounted' = [mounted EXCEPT ![i] = TRUE]
      /\ Record("init", i, <<>>)
      /\ UNCHANGED guestCart

----------------------------------------------------------------------------
(* Handlers *)

\* persistUser throws at JSON.parse(dbStr), after setUser and the SESSION write
PersistThrows == IsPresent(usersDb) /\ ParseThrows(usersDb)

\* faulty variant: the Directory write keeps the stored order history when it
\* is longer than the writer's
persistUserKeepsStoredOrders(i, updatedUser) ==
  /\ user' = [user EXCEPT ![i] = <<updatedUser>>]
  /\ session' = JSONstringify(updatedUser)
  /\ IF PersistThrows
     THEN UNCHANGED usersDb
     ELSE LET db == LoadDb(usersDb)
              stored == DbGet(db, updatedUser.email)
              kept == IF stored # <<>> /\ Len(stored[1].orders) > Len(updatedUser.orders)
                      THEN [updatedUser EXCEPT !.orders = stored[1].orders]
                      ELSE updatedUser
          IN  usersDb' = JSONstringify(DbSet(db, updatedUser.email, kept))

\* faulty variant: the Directory write is left out
persistUserSessionOnly(i, updatedUser) ==
  /\ user' = [user EXCEPT ![i] = <<updatedUser>>]
  /\ session' = JSONstringify(updatedUser)
  /\ UNCHANGED usersDb

persistUser(i, updatedUser) ==
  /\ user' = [user EXCEPT ![i] = <<updatedUser>>]
  /\ session' = JSONstringify(updatedUser)
  /\ IF PersistThrows
     THEN UNCHANGED usersDb
     ELSE usersDb' = JSONstringify(DbSet(LoadDb(usersDb), updatedUser.email, updatedUser))

\* faulty variant: the guest cart is not saved
persistGuestCartSkipped(items) == UNCHANGED guestCart

persistGuestCart(items) == guestCart' = JSONstringify(items)

addToCart(i, product) ==
  /\ mounted[i]
  /\ CartEntriesIn(Held(usersDb)) + (IF user[i] = <<>> THEN Len(cartItems[i]) ELSE 0) < MaxCart
  /\ LET newCart == AddedCart(cartItems[i], product)
     IN  /\ cartItems' = [cartItems EXCEPT ![i] = newCart]
         /\ IF user[i] # <<>>
            THEN persistUser(i, WithCart(user[i][1], newCart)) /\ UNCHANGED guestCart
            ELSE persistGuestCart(newCart) /\ UNCHANGED <<user, session, usersDb>>
  /\ Record("addToCart", i, <<product>>)
  /\ UNCHANGED mounted

removeFromCart(i, id) ==
  /\ mounted[i]
  /\ LET newCart == FilteredCart(cartItems[i], id)
     IN  /\ cartItems' = [cartItems EXCEPT ![i] = newCart]
         /\ IF user[i] # <<>>
            THEN persistUser(i, WithCart(user[i][1], newCart)) /\ UNCHANGED guestCart
            ELSE persistGuestCart(newCart) /\ UNCHANGED <<user, session, usersDb>>
  /\ Record("removeFromCart", i, <<id>>)
  /\ UNCHANGED mounted

\* faulty variant: the empty-cart return is missing
NeverReturnsEarly(cart) == FALSE

\* if (cartItems.length === 0) return
ReturnsEarly(cart) == Len(cart) = 0

\* faulty variant: the guest branch leaves GUEST_CART in storage
guestCheckoutKeepsStore(i) ==
  /\ cartItems' = [cartItems EXCEPT ![i] = <<>>]
  /\ UNCHANGED <<guestCart, user, session, usersDb>>

\* the guest branch of processOrder with the final setCartItems([])
guestCheckout(i) ==
  /\ cartItems' = [cartItems EXCEPT ![i] = <<>>]
  /\ guestCart' = NullItem
  /\ UNCHANGED <<user, session, usersDb>>

\* onSubmit of the Checkout modal; an empty cart returns at once; a throw of
\* persistUser skips the final setCartItems([])
processOrder(i, id, date, deliveryDetails) ==
  /\ mounted[i]
  /\ IF ReturnsEarly(cartItems[i])
     THEN UNCHANGED <<session, usersDb, guestCart, user, cartItems>>
     ELSE IF user[i] # <<>>
          THEN /\ OrdersIn(LoadDb(usersDb)) < MaxOrders
               /\ persistUser(i, WithOrder(user[i][1],
                                           newOrder(cartItems[i], id, date, deliveryDetails)))
               /\ IF PersistThrows
                  THEN UNCHANGED cartItems
                  ELSE cartItems' = [cartItems EXCEPT ![i] = <<>>]
               /\ UNCHANGED guestCart
          ELSE guestCheckout(i)
  /\ Record("processOrder", i, <<deliveryDetails>>)
  /\ UNCHANGED mounted

\* the record the Auth component hands to onLogin
AuthUsers ==
  { [name |-> NameOf(e), email |-> e, cart |-> c, orders |-> <<>>] :
      e \in AuthEmails, c \in StartupCarts }

\* faulty variant: GUEST_CART is left in storage
handleLoginKeepsGuestCart(i, userFromAuth) ==
  /\ mounted[i]
  /\ user[i] = <<>>
  /\ IF PersistThrows
     THEN UNCHANGED <<session, usersDb, guestCart, user, cartItems>>
     ELSE LET db == LoadDb(usersDb)
              freshUser == OrElse(lookup(db, userFromAuth.email), <<userFromAuth>>)[1]
              merged == mergedCart(freshUser.cart, cartItems[i])
          IN  /\ CartEntriesIn(DbSet(db, freshUser.email, WithCart(freshUser, merged))) <= MaxCart
              /\ persistUser(i, WithCart(freshUser, merged))
              /\ cartItems' = [cartItems EXCEPT ![i] = merged]
              /\ UNCHANGED guestCart
  /\ Record("handleLogin", i, <<userFromAuth>>)
  /\ UNCHANGED mounted

\* onLogin of the Auth modal, which is opened only while user is null; a
\* Directory text that does not parse makes the handler throw on its first read
handleLogin(i, userFromAuth) ==
  /\ mounted[i]
  /\ user[i] = <<>>
  /\ IF PersistThrows
     THEN UNCHANGED <<session, usersDb, guestCart, user, cartItems>>
     ELSE LET db == LoadDb(usersDb)
              freshUser == OrElse(lookup(db, userFromAuth.email), <<userFromAuth>>)[1]
              merged == mergedCart(freshUser.cart, cartItems[i])
          IN  /\ CartEntriesIn(DbSet(db, freshUser.email, WithCart(freshUser, merged))) <= MaxCart
              /\ persistUser(i, WithCart(freshUser, merged))
              /\ cartItems' = [cartItems EXCEPT ![i] = merged]
              /\ guestCart' = NullItem
  /\ Record("handleLogin", i, <<userFromAuth>>)
  /\ UNCHANGED mounted

\* faulty variant: SESSION is left in storage
handleLogoutKeepsSession(i, confirmed) ==
  /\ mounted[i]
  /\ user[i] # <<>>
  /\ IF confirmed
     THEN /\ user' = [user EXCEPT ![i] = <<>>]
          /\ cartItems' = [cartItems EXCEPT ![i] = <<>>]
          /\ UNCHANGED session
     ELSE UNCHANGED <<session, user, cartItems>>
  /\ Record("handleLogout", i, <<confirmed>>)
  /\ UNCHANGED <<usersDb, guestCart, mounted>>

\* onLogout of the Profile modal, rendered only while user is set; confirmed is
\* the answer to window.confirm
handleLogout(i, confirmed) ==
  /\ mounted[i]
  /\ user[i] # <<>>
  /\ IF confirmed
     THEN /\ session' = NullItem
          /\ user' = [user EXCEPT ![i] = <<>>]
          /\ cartItems' = [cartItems EXCEPT ![i] = <<>>]
     ELSE UNCHANGED <<session, user, cartItems>>
  /\ Record("handleLogout", i, <<confirmed>>)
  /\ UNCHANGED <<usersDb, guestCart, mounted>>

----------------------------------------------------------------------------
(* Specifications *)

\* what one tab can do
TabNext(i) ==
  \/ Initialization(i)
  \/ \E product \in Products : addToCart(i, product)
  \/ \E id \in ProductIds : removeFromCart(i, id)
  \/ \E id \in OrderIds, date \in Dates, d \in Deliveries : processOrder(i, id, date, d)
  \/ \E u \in AuthUsers : handleLogin(i, u)
  \/ \E confirmed \in BOOLEAN : handleLogout(i, confirmed)

Next == TabNext(1)

\* one tab, opened on storage in any state earlier runs can have left
Spec == Init /\ [][Next]_vars

\* one tab, opened on empty storage
SpecEmpty == InitEmpty /\ [][Next]_vars

\* number of orders of this run in one history
OrdersOf(orders) == Len(SelectSeq(orders, LAMBDA o : o.id \in OrderIds))

\* number of product entries in the React state of a tab
MemEntries(i) ==
  IF user[i] = <<>> THEN Len(cartItems[i])
  ELSE Len(user[i][1].cart) + ItemsIn(user[i][1].orders)

\* the React state of the two tabs is within the bounds: with a second writer
\* the Directory no longer bounds what a tab holds in memory
InMemoryBounded ==
  /\ MemEntries(1) + MemEntries(2) <= MaxCart
  /\ \A i \in Tabs : user[i] # <<>> => OrdersOf(user[i][1].orders) <= MaxOrders

\* the account the shopper of the two tabs signs in to
SharedAccount ==
  [name |-> NameOf(<<"a", "@", "x">>), email |-> <<"a", "@", "x">>,
   cart |-> <<>>, orders |-> <<>>]

\* two tabs of one browser used by a shopper who signs in before shopping:
\* each handler runs to completion on the shared localStorage before the next
\* one starts, in either tab
TwoTabsNext ==
  \/ \E i \in Tabs : Initialization(i) /\ InMemoryBounded'
  \/ \E i \in Tabs, product \in Products :
        user[i] # <<>> /\ addToCart(i, product) /\ InMemoryBounded'
  \/ \E i \in Tabs, id \in ProductIds :
        user[i] # <<>> /\ removeFromCart(i, id) /\ InMemoryBounded'
  \/ \E i \in Tabs, id \in OrderIds, date \in Dates, d \in Deliveries :
        user[i] # <<>> /\ processOrder(i, id, date, d) /\ InMemoryBounded'
  \/ \E i \in Tabs : handleLogin(i, SharedAccount) /\ InMemoryBounded'
  \/ \E i \in Tabs, confirmed \in BOOLEAN :
        handleLogout(i, confirmed) /\ InMemoryBounded'

\* two tabs, opened on empty storage
SpecTwoTabs == InitEmpty /\ [][TwoTabsNext]_vars

----------------------------------------------------------------------------
(* Vocabulary of the properties: the handler that ran last, where it started *)

\* the tab whose handler ran last
T == IF lastOp.tab \in Tabs THEN lastOp.tab ELSE 1

\* state the last handler started from
pre == lastOp.pre

\* a stored text that is present and decodes
Decodable(item) == IsPresent(item) /\ ~ParseThrows(item)

\* a stored Directory text that can be read: absent (empty) or decodable
Readable(dbStr) == ~ParseThrows(dbStr)

\* s is a prefix of t
IsPrefix(s, t) == Len(s) <= Len(t) /\ SubSeq(t, 1, Len(s)) = s

\* the last handler was a login that went through
LoggedIn == lastOp.op = "handleLogin" /\ user[T] # <<>>

\* the last handler was a checkout of a non-empty cart by a signed-in shopper
SignedInCheckout ==
  lastOp.op = "processOrder" /\ pre.user # <<>> /\ pre.cartItems # <<>>

\* the last handler was the initialization effect, on a decodable session and a
\* readable Directory
Resolved ==
  lastOp.op = "init" /\ Decodable(pre.session) /\ Readable(pre.usersDb)

\* the email of the session the resolver started from
SessionEmail == JSONparse(pre.session).email

\* the Directory lookup of the resolver found an entry: under the session's email
\* as written, or under its lowercased form
FoundInDb ==
  \/ SessionEmail \in DOMAIN LoadDb(pre.usersDb)
  \/ toLowerCase(SessionEmail) \in DOMAIN LoadDb(pre.usersDb)

----------------------------------------------------------------------------
(* C1 *)

\* the cart the account that was logged in had before: its Directory entry's
\* cart, or the cart of the record of the auth step when it had no entry
CartBeforeLogin ==
  LET db == LoadDb(pre.usersDb)
      e == user[T][1].email
  IN  IF e \in DOMAIN db THEN db[e].cart ELSE lastOp.arg[1].cart

\* C1: after a login that went through, the live cart, the cart of the stored
\* Session and the cart of the account's Directory entry are all the account's
\* previous cart followed by the pre-login live cart, entry for entry (no
\* deduplication, length |A| + |G|).
C1_LoginMerge ==
  LoggedIn =>
    LET A == CartBeforeLogin
        G == pre.cartItems
        e == user[T][1].email
    IN  /\ cartItems[T] = A \o G
        /\ Len(cartItems[T]) = Len(A) + Len(G)
        /\ Decodable(session) /\ JSONparse(session).cart = A \o G
        /\ Decodable(usersDb) /\ e \in DOMAIN LoadDb(usersDb)
        /\ LoadDb(usersDb)[e].cart = A \o G

\* a login that merged a stored cart and a guest cart sharing a product
C1_Witness ==
  /\ LoggedIn
  /\ user[T][1].email \in DOMAIN LoadDb(pre.usersDb)
  /\ CartBeforeLogin # <<>> /\ pre.cartItems # <<>>
  /\ \E a \in DOMAIN CartBeforeLogin, g \in DOMAIN pre.cartItems :
        CartBeforeLogin[a] = pre.cartItems[g]

----------------------------------------------------------------------------
(* C2 *)

\* the last handler wrote a signed-in account's cart or orders
WroteAccount ==
  \/ lastOp.op \in {"addToCart", "removeFromCart"} /\ pre.user # <<>>
  \/ SignedInCheckout
  \/ LoggedIn

\* C2: after every handler that writes a signed-in account's cart or orders, the
\* stored Session, the Directory entry under the active account's email and the
\* in-memory account are equal.
C2_WrittenTogether ==
  WroteAccount =>
    /\ user[T] # <<>>
    /\ session = JSONstringify(user[T][1])
    /\ Decodable(usersDb)
    /\ DbGet(LoadDb(usersDb), user[T][1].email) = user[T]

\* a signed-in removal that changed the account's cart
C2_Witness ==
  /\ lastOp.op = "removeFromCart"
  /\ pre.user # <<>>
  /\ user[T] # pre.user

----------------------------------------------------------------------------
(* C3 *)

\* C3: a signed-in checkout of a non-empty cart appends exactly one order to the
\* account's history and empties the account's cart in the stored Session and in
\* its Directory entry, and the live cart.
C3_SignedInCheckout ==
  SignedInCheckout =>
    LET u0 == pre.user[1]
    IN  /\ user[T] # <<>> /\ user[T][1].email = u0.email
        /\ Len(user[T][1].orders) = Len(u0.orders) + 1
        /\ IsPrefix(u0.orders, user[T][1].orders)
        /\ Decodable(session)
        /\ JSONparse(session).email = u0.email
        /\ JSONparse(session).cart = <<>>
        /\ JSONparse(session).orders = user[T][1].orders
        /\ Decodable(usersDb) /\ u0.email \in DOMAIN LoadDb(usersDb)
        /\ LoadDb(usersDb)[u0.email].cart = <<>>
        /\ LoadDb(usersDb)[u0.email].orders = user[T][1].orders
        /\ cartItems[T] = <<>>

\* a signed-in checkout by an account that already had a purchase
C3_Witness ==
  /\ SignedInCheckout
  /\ pre.user[1].orders # <<>>
  /\ Len(user[T][1].orders) = 2

----------------------------------------------------------------------------
(* C4 *)

\* C4: when the resolver starts from a decodable Session whose email the
\* Directory lookup does not find, it stores the Session snapshot in the
\* Directory under the Session's email, activates that snapshot with its cart,
\* leaves the Session in storage and leaves every other Directory entry as it was.
C4_SelfHealing ==
  (Resolved /\ ~FoundInDb) =>
    LET snap == JSONparse(pre.session)
        db0 == LoadDb(pre.usersDb)
    IN  /\ Decodable(usersDb)
        /\ DbGet(LoadDb(usersDb), snap.email) = <<snap>>
        /\ user[T] = <<snap>>
        /\ cartItems[T] = snap.cart
        /\ session = pre.session
        /\ \A k \in DOMAIN db0 : DbGet(LoadDb(usersDb), k) = <<db0[k]>>
        /\ DOMAIN LoadDb(usersDb) = DOMAIN db0 \cup {snap.email}

\* a repair of a Directory that held another account, from a session with a cart
C4_Witness ==
  /\ Resolved /\ ~FoundInDb
  /\ DOMAIN LoadDb(pre.usersDb) # {}
  /\ JSONparse(pre.session).cart # <<>>
  /\ SessionEmail # toLowerCase(SessionEmail)

----------------------------------------------------------------------------
(* C5 *)

\* the Directory entry the lookup of the resolver finds
FoundEntry ==
  LET db0 == LoadDb(pre.usersDb)
  IN  IF SessionEmail \in DOMAIN db0 THEN db0[SessionEmail]
      ELSE db0[toLowerCase(SessionEmail)]

\* C5: when the resolver starts from a decodable Session whose email the
\* Directory lookup finds, the active account and the live cart are those of the
\* Directory entry, whatever the Session snapshot carries, and the Directory is
\* not modified.
C5_DirectoryAuthoritative ==
  (Resolved /\ FoundInDb) =>
    /\ user[T] = <<FoundEntry>>
    /\ cartItems[T] = FoundEntry.cart
    /\ usersDb = pre.usersDb

\* a startup where the Session carries a cart and orders the Directory entry
\* does not have
C5_Witness ==
  /\ Resolved /\ FoundInDb
  /\ JSONparse(pre.session).cart # FoundEntry.cart
  /\ JSONparse(pre.session).orders # FoundEntry.orders

----------------------------------------------------------------------------
(* C6 *)

\* keys of a Directory equal to an email when both are lowercased
KeysMatching(db, email) ==
  { k \in DOMAIN db : toLowerCase(k) = toLowerCase(email) }

\* account u is the Directory entry, up to the cart a login merges into it
SameAccount(u, entry) == [u EXCEPT !.cart = entry.cart] = entry

\* the email looked up by the last handler, when it was the resolver on a
\* decodable session or a login that went through (<<>> otherwise)
LookedUp ==
  IF Resolved THEN <<SessionEmail>>
  ELSE IF LoggedIn THEN <<lastOp.arg[1].email>>
  ELSE <<>>

\* C6: the lookup of the resolver and of login returns the entry stored under
\* the email; failing that, an entry whose key equals the email when both are
\* lowercased, never NotFound.
C6_CaseInsensitiveLookup ==
  LookedUp # <<>> =>
    LET e == LookedUp[1]
        db0 == LoadDb(pre.usersDb)
    IN  KeysMatching(db0, e) # {} =>
          /\ user[T] # <<>>
          /\ IF e \in DOMAIN db0
             THEN SameAccount(user[T][1], db0[e])
             ELSE \E k \in KeysMatching(db0, e) : SameAccount(user[T][1], db0[k])

----------------------------------------------------------------------------
(* C7 *)

\* C7: when the resolver starts from a Session snapshot that differs from the
\* Directory entry stored under the same email, the stored Session equals the
\* Directory entry of the active account once the resolver has finished.
C7_StaleSessionRepaired ==
  (/\ Resolved
   /\ SessionEmail \in DOMAIN LoadDb(pre.usersDb)
   /\ JSONparse(pre.session) # LoadDb(pre.usersDb)[SessionEmail]) =>
    /\ user[T] # <<>>
    /\ Decodable(usersDb)
    /\ session = JSONstringify(LoadDb(usersDb)[user[T][1].email])

----------------------------------------------------------------------------
(* C8 *)

\* C8: a reload of a running tab restores the active account (with its order
\* history) and the live cart that were in memory, and leaves storage as it was,
\* so that a further reload starts from the same storage and the same memory.
C8_DurableAcrossReload ==
  (lastOp.op = "init" /\ pre.mounted) =>
    /\ user[T] = pre.user
    /\ cartItems[T] = pre.cartItems
    /\ session = pre.session
    /\ usersDb = pre.usersDb
    /\ guestCart = pre.guestCart

\* a reload by a signed-in shopper with a purchase and a cart
C8_Witness ==
  /\ lastOp.op = "init" /\ pre.mounted
  /\ pre.user # <<>>
  /\ pre.user[1].orders # <<>>
  /\ pre.cartItems # <<>>

----------------------------------------------------------------------------
(* C9 *)

\* C9: whatever handler ran (resolver included), every account of the Directory
\* is still there and its order history extends the history it had before.
C9_OrdersAppendOnly ==
  (lastOp.op # "none" /\ Decodable(pre.usersDb)) =>
    /\ Decodable(usersDb)
    /\ \A k \in DOMAIN LoadDb(pre.usersDb) :
          /\ k \in DOMAIN LoadDb(usersDb)
          /\ IsPrefix(LoadDb(pre.usersDb)[k].orders, LoadDb(usersDb)[k].orders)

\* a Directory entry with a purchase got a further one
C9_Witness ==
  /\ Decodable(pre.usersDb) /\ Decodable(usersDb)
  /\ \E k \in DOMAIN LoadDb(pre.usersDb) :
        /\ LoadDb(pre.usersDb)[k].orders # <<>>
        /\ k \in DOMAIN LoadDb(usersDb)
        /\ Len(LoadDb(usersDb)[k].orders) > Len(LoadDb(pre.usersDb)[k].orders)

----------------------------------------------------------------------------
(* C10 *)

\* the email of the account the last handler worked for: the one active after
\* it, or the one that was active before it (logout)
ActiveEmail ==
  IF user[T] # <<>> THEN <<user[T][1].email>>
  ELSE IF pre.user # <<>> THEN <<pre.user[1].email>>
  ELSE <<>>

\* C10: whatever handler ran (resolver included), every Directory entry stored
\* under another key than the active account's email is exactly as it was; an
\* unreadable Directory text stays as it was.
C10_OthersUntouched ==
  lastOp.op # "none" =>
    IF ParseThrows(pre.usersDb) \/ ParseThrows(usersDb)
    THEN usersDb = pre.usersDb
    ELSE \A k \in Emails :
           <<k>> # ActiveEmail =>
             DbGet(LoadDb(usersDb), k) = DbGet(LoadDb(pre.usersDb), k)

\* a signed-in shopper changed the Directory while it held another account
C10_Witness ==
  /\ lastOp.op \in {"addToCart", "processOrder", "handleLogin"}
  /\ user[T] # <<>>
  /\ Decodable(pre.usersDb) /\ Decodable(usersDb)
  /\ usersDb # pre.usersDb
  /\ \E k \in DOMAIN LoadDb(pre.usersDb) : k # user[T][1].email

----------------------------------------------------------------------------
(* C11 *)

\* sum of the prices of a cart, entry by entry from the front
RECURSIVE PriceSum(_)
PriceSum(cart) == IF cart = <<>> THEN 0 ELSE Head(cart).price + PriceSum(Tail(cart))

\* the order a signed-in checkout recorded: the last one of the active account
RecordedOrder == user[T][1].orders[Len(user[T][1].orders)]

\* C11: the order a checkout of a non-empty cart C records has the entries of C
\* in the same order as items, the sum of their prices as total, the status
\* processing and the delivery details that were submitted.
C11_OrderContent ==
  SignedInCheckout =>
    /\ user[T] # <<>> /\ user[T][1].orders # <<>>
    /\ RecordedOrder.items = pre.cartItems
    /\ RecordedOrder.total = PriceSum(pre.cartItems)
    /\ RecordedOrder.status = "processing"
    /\ RecordedOrder.delivery = lastOp.arg[1]
    /\ RecordedOrder.delivery \in Deliveries

\* a recorded checkout of a cart with entries of different prices
C11_Witness ==
  /\ SignedInCheckout
  /\ Len(pre.cartItems) >= 2
  /\ \E a, b \in DOMAIN pre.cartItems : pre.cartItems[a].price # pre.cartItems[b].price

----------------------------------------------------------------------------
(* C12 *)

\* the last handler left storage and the React state of its tab as they were
NothingChanged ==
  /\ session = pre.session
  /\ usersDb = pre.usersDb
  /\ guestCart = pre.guestCart
  /\ user[T] = pre.user
  /\ cartItems[T] = pre.cartItems

\* C12: a checkout with an empty live cart, signed in or not, creates no order
\* and leaves the Session, the Directory, the Guest Cart store, the active
\* account and the live cart unchanged.
C12_EmptyCheckoutNoOp ==
  (lastOp.op = "processOrder" /\ pre.cartItems = <<>>) => NothingChanged

\* an empty-cart checkout by a signed-in shopper
C12_Witness ==
  /\ lastOp.op = "processOrder"
  /\ pre.cartItems = <<>>
  /\ pre.user # <<>>

\* an empty-cart checkout by a guest whose Guest Cart store holds a text
C12_GuestWitness ==
  /\ lastOp.op = "processOrder"
  /\ pre.cartItems = <<>>
  /\ pre.user = <<>>
  /\ IsPresent(pre.guestCart)

----------------------------------------------------------------------------
(* C13 *)

\* the last handler was a checkout of a non-empty cart by a guest
GuestCheckout ==
  lastOp.op = "processOrder" /\ pre.user = <<>> /\ pre.cartItems # <<>>

\* C13: a guest checkout of a non-empty cart empties the live cart and removes
\* the Guest Cart store; no storage key receives an order: the Directory and
\* the Session are as they were and no account is active.
C13_GuestCheckout ==
  GuestCheckout =>
    /\ cartItems[T] = <<>>
    /\ guestCart = NullItem
    /\ usersDb = pre.usersDb
    /\ session = pre.session
    /\ user[T] = <<>>

\* a guest checkout of a cart that was saved in the Guest Cart store
C13_Witness ==
  /\ GuestCheckout
  /\ Decodable(pre.guestCart)
  /\ JSONparse(pre.guestCart) = pre.cartItems

----------------------------------------------------------------------------
(* C14 *)

\* the last handler was a logout the shopper confirmed
LoggedOut == lastOp.op = "handleLogout" /\ lastOp.arg[1]

\* the last handler was a login that went through, with an empty live cart, to
\* an account the Directory already held
LoggedBackIn ==
  /\ LoggedIn
  /\ pre.cartItems = <<>>
  /\ user[T][1].email \in DOMAIN LoadDb(pre.usersDb)

\* C14: a confirmed logout removes the Session, leaves no active account and an
\* empty live cart, and does not touch the Directory, whose entry still is the
\* account as it was in memory; a login with an empty live cart activates the
\* account exactly as the Directory holds it.
C14_Logout ==
  /\ LoggedOut =>
       /\ session = NullItem
       /\ user[T] = <<>>
       /\ cartItems[T] = <<>>
       /\ usersDb = pre.usersDb
       /\ Decodable(usersDb)
       /\ DbGet(LoadDb(usersDb), pre.user[1].email) = pre.user
  /\ LoggedBackIn =>
       /\ user[T] = <<LoadDb(pre.usersDb)[user[T][1].email]>>
       /\ cartItems[T] = user[T][1].cart
       /\ usersDb = pre.usersDb

\* a confirmed logout of an account with a cart and a purchase
C14_Witness ==
  /\ LoggedOut
  /\ pre.user[1].cart # <<>>
  /\ pre.user[1].orders # <<>>

\* a login that restored a cart and a purchase
C14_LoginWitness ==
  /\ LoggedBackIn
  /\ user[T][1].cart # <<>>
  /\ user[T][1].orders # <<>>

----------------------------------------------------------------------------
(* C15 *)

\* C15: in a tab started on empty storage an account is active exactly when the
\* SESSION key is present, and the GUEST_CART key is absent whenever the SESSION
\* key is present.
C15_SessionXorGuestCart ==
  /\ mounted[1] => (user[1] # <<>> <=> IsPresent(session))
  /\ IsPresent(session) => ~IsPresent(guestCart)

\* a login by a guest whose cart was in the Guest Cart store
C15_Witness ==
  /\ LoggedIn
  /\ IsPresent(pre.guestCart)
  /\ pre.cartItems # <<>>
  /\ IsPresent(session)

----------------------------------------------------------------------------
(* C16 *)

\* the cart the Guest Cart store holds (empty when absent or undecodable)
StoredGuestCart(item) == IF Decodable(item) THEN JSONparse(item) ELSE <<>>

\* C16: when the resolver starts from a Session text that does not decode, the
\* SESSION key is removed, no account is active, the Directory is as it was and
\* the live cart is the stored Guest Cart.
C16_CorruptSession ==
  (lastOp.op = "init" /\ IsPresent(pre.session) /\ ParseThrows(pre.session)) =>
    /\ session = NullItem
    /\ user[T] = <<>>
    /\ usersDb = pre.usersDb
    /\ cartItems[T] = StoredGuestCart(pre.guestCart)

----------------------------------------------------------------------------
(* C17 *)

\* C17: when the resolver starts from a decodable Session and a Directory text
\* that does not decode, the Session stays, the snapshot is written into the
\* Directory under its email and the Session's account is the active account.
C17_CorruptDirectory ==
  (lastOp.op = "init" /\ Decodable(pre.session) /\ ParseThrows(pre.usersDb)) =>
    /\ session = pre.session
    /\ user[T] = <<JSONparse(pre.session)>>
    /\ Decodable(usersDb)
    /\ DbGet(LoadDb(usersDb), JSONparse(pre.session).email) = <<JSONparse(pre.session)>>

----------------------------------------------------------------------------
(* C18 *)

\* C18: addToCart(p) makes the live cart the previous one followed by p, also
\* when p is already in it; signed in, the new cart is the cart of the stored
\* Session and of the account's Directory entry and the Guest Cart store is
\* untouched; as a guest, the new cart is the Guest Cart store and the Session
\* and the Directory are untouched.
C18_AddToCart ==
  lastOp.op = "addToCart" =>
    LET newCart == pre.cartItems \o <<lastOp.arg[1]>>
    IN  /\ cartItems[T] = newCart
        /\ Len(cartItems[T]) = Len(pre.cartItems) + 1
        /\ IF pre.user # <<>>
           THEN /\ Decodable(session)
                /\ JSONparse(session).email = pre.user[1].email
                /\ JSONparse(session).cart = newCart
                /\ Decodable(usersDb)
                /\ pre.user[1].email \in DOMAIN LoadDb(usersDb)
                /\ LoadDb(usersDb)[pre.user[1].email].cart = newCart
                /\ guestCart = pre.guestCart
           ELSE /\ guestCart = JSONstringify(newCart)
                /\ session = pre.session
                /\ usersDb = pre.usersDb

\* a signed-in shopper added a product the cart already held
C18_Witness ==
  /\ lastOp.op = "addToCart"
  /\ pre.user # <<>>
  /\ \E k \in DOMAIN pre.cartItems : pre.cartItems[k] = lastOp.arg[1]

----------------------------------------------------------------------------
(* C20 *)

\* a cart without the entries of an identifier, entry by entry from the front
RECURSIVE Without(_, _)
Without(cart, id) ==
  IF cart = <<>> THEN <<>>
  ELSE IF Head(cart).id = id THEN Without(Tail(cart), id)
  ELSE <<Head(cart)>> \o Without(Tail(cart), id)

\* C20: removeFromCart(id) removes every entry of the live cart with that
\* identifier and keeps the others in order (nothing changes in the cart when
\* no entry has it); the result is the cart of the Session and of the Directory
\* entry when an account is active, the Guest Cart store otherwise.
C20_RemoveFromCart ==
  lastOp.op = "removeFromCart" =>
    LET id == lastOp.arg[1]
        newCart == Without(pre.cartItems, id)
    IN  /\ cartItems[T] = newCart
        /\ \A k \in DOMAIN cartItems[T] : cartItems[T][k].id # id
        /\ (\A k \in DOMAIN pre.cartItems : pre.cartItems[k].id # id)
              => cartItems[T] = pre.cartItems
        /\ IF pre.user # <<>>
           THEN /\ Decodable(session)
                /\ JSONparse(session).cart = newCart
                /\ Decodable(usersDb)
                /\ pre.user[1].email \in DOMAIN LoadDb(usersDb)
                /\ LoadDb(usersDb)[pre.user[1].email].cart = newCart
                /\ guestCart = pre.guestCart
           ELSE /\ guestCart = JSONstringify(newCart)
                /\ session = pre.session
                /\ usersDb = pre.usersDb

\* a removal from a cart with two entries of the product around another one
C20_Witness ==
  /\ lastOp.op = "removeFromCart"
  /\ Len(pre.cartItems) = 3
  /\ pre.cartItems[1].id = lastOp.arg[1]
  /\ pre.cartItems[2].id # lastOp.arg[1]
  /\ pre.cartItems[3].id = lastOp.arg[1]


----------------------------------------------------------------------------
(* C19 *)

\* the last handler wrote the account of a signed-in tab
SignedInWrite ==
  \/ lastOp.op \in {"addToCart", "removeFromCart"} /\ pre.user # <<>>
  \/ SignedInCheckout

\* the Directory entry of the writer's account before and after the write
EntryBefore == DbGet(LoadDb(pre.usersDb), pre.user[1].email)
EntryAfter == DbGet(LoadDb(usersDb), pre.user[1].email)

\* the cart the writer's handler computes from its own live cart
WrittenCart ==
  CASE lastOp.op = "addToCart" -> pre.cartItems \o <<lastOp.arg[1]>>
    [] lastOp.op = "removeFromCart" -> Without(pre.cartItems, lastOp.arg[1])
    [] OTHER -> <<>>

\* C19: with two tabs on the same storage, a signed-in write of a tab replaces
\* the Session and the account's Directory entry by what that tab held in
\* memory plus its own change: the stored cart comes from the tab's live cart,
\* the stored orders are the tab's in-memory orders (plus the new order of a
\* checkout), whatever the Directory entry held before the write.
C19_LastWriteWins ==
  SignedInWrite =>
    /\ Decodable(usersDb)
    /\ EntryAfter # <<>>
    /\ session = JSONstringify(EntryAfter[1])
    /\ EntryAfter[1].email = pre.user[1].email
    /\ EntryAfter[1].name = pre.user[1].name
    /\ EntryAfter[1].cart = WrittenCart
    /\ IF lastOp.op = "processOrder"
       THEN /\ Len(EntryAfter[1].orders) = Len(pre.user[1].orders) + 1
            /\ IsPrefix(pre.user[1].orders, EntryAfter[1].orders)
       ELSE EntryAfter[1].orders = pre.user[1].orders

\* a write of one tab removed from storage an order the other tab's checkout
\* had appended to the account
C19_Witness ==
  /\ SignedInWrite
  /\ Decodable(pre.usersDb)
  /\ EntryBefore # <<>>
  /\ EntryAfter # <<>>
  /\ pre.user[1].orders = <<>>
  /\ EntryBefore[1].orders # <<>>
  /\ EntryAfter[1].orders = <<>>
  /\ EntryAfter[1].cart # EntryBefore[1].cart
  /\ \E j \in Tabs \ {lastOp.tab} : user[j] # <<>> /\ user[j][1].orders = EntryBefore[1].orders

====
